---- MODULE Spec2Model ----
(***************************************************************************)
(* Model of package rxmerr (DIRPX/rxmerr): the Collector type and the free *)
(* functions Combine, Append, Errors, AppendInto and AppendFunc, which are *)
(* thin wrappers around go.uber.org/multierr.                              *)
(*                                                                         *)
(* An error value is a record [kind, id, errors]:                          *)
(*   kind = "nil"    the nil error                                         *)
(*   kind = "single" an ordinary error, named by id                        *)
(*   kind = "multi"  a multierr aggregate holding the slice errors         *)
(* The aggregation library itself is not part of the repository's source;  *)
(* the operators named multierr* model its contract as the specification   *)
(* (sections 4.1 to 4.5) and the doc comments of the wrappers state it.    *)
(***************************************************************************)
EXTENDS Integers, Sequences, FiniteSets, TLC

VARIABLES
    c,            \* the Collector object: [err, count]
    appended,     \* history: the non-nil arguments Append received since creation or the last Reset
    captured,     \* r := c.Err(), the value a caller captured (Nil before any capture)
    capturedErrs, \* Errors(r) at the moment r was captured
    last,         \* the last call made on the Collector
    x, y, z,      \* inputs of the free functions
    op,           \* the last free function called
    nargs,        \* number of arguments the last Combine call received
    out,          \* the value the last free function returned
    slot,         \* the error variable a destination pointer points to
    dstNil,       \* whether the last AppendInto/AppendFunc call got a nil destination pointer
    arg,          \* the err argument of the last AppendInto call
    before,       \* the value of slot before the last AppendInto/AppendFunc call
    panicked,     \* whether the last call panicked
    useLock,      \* whether the goroutines wrap every call in one mutex
    mu,           \* the mutex: 0 when free, else the goroutine holding it
    pc,           \* where each goroutine is in its c.Append(err) call
    targ,         \* the err argument of each goroutine's Append call
    regErr,       \* the value of c.err each goroutine read
    regCount      \* the value of c.count each goroutine read

vars == <<c, appended, captured, capturedErrs, last, x, y, z, op, nargs, out,
          slot, dstNil, arg, before, panicked,
          useLock, mu, pc, targ, regErr, regCount>>

collectorVars == <<c, appended, captured, capturedErrs, last>>
pureVars == <<x, y, z, op, nargs, out>>
intoVars == <<slot, dstNil, arg, before>>
raceVars == <<useLock, mu, pc, targ, regErr, regCount>>

----------------------------------------------------------------------------
(* Bounds *)

\* largest number of constituents the Collector or a destination variable accumulates
MaxLen == 3
\* largest number of constituents of an aggregate passed as an argument
MaxAgg == 2

----------------------------------------------------------------------------
(* Error values *)

Atoms == {"errA", "errB", "errC"}

Nil == [kind |-> "nil", id |-> "", errors |-> <<>>]
Single(n) == [kind |-> "single", id |-> n, errors |-> <<>>]
Multi(s) == [kind |-> "multi", id |-> "", errors |-> s]

IsNil(e) == e.kind = "nil"
IsMulti(e) == e.kind = "multi"

Singles == {Single(n) : n \in Atoms}
Aggregates == {Multi(s) : s \in UNION {[1..k -> Singles] : k \in 2..MaxAgg}}
\* the error values a caller can hold: nil, ordinary errors, and aggregates
\* the library returned earlier (flat, at least two constituents)
ErrVal == {Nil} \cup Singles \cup Aggregates

----------------------------------------------------------------------------
(* go.uber.org/multierr, by its contract *)

RECURSIVE CountNonNil(_)
CountNonNil(errors) ==
    IF errors = <<>> THEN 0
    ELSE (IF IsNil(Head(errors)) THEN 0 ELSE 1) + CountNonNil(Tail(errors))

FirstErrorIdx(errors) ==
    CHOOSE i \in 1..Len(errors) :
        /\ ~IsNil(errors[i])
        /\ \A j \in 1..(i - 1) : IsNil(errors[j])

ContainsMultiError(errors) == \E i \in 1..Len(errors) : IsMulti(errors[i])

\* the flattening loop: nil entries are skipped, an aggregate's errors are
\* spliced in place, any other error is appended
RECURSIVE flatten(_)
flatten(errors) ==
    IF errors = <<>> THEN <<>>
    ELSE LET h == Head(errors) IN
         (IF IsNil(h) THEN <<>>
          ELSE IF IsMulti(h) THEN h.errors
          ELSE <<h>>) \o flatten(Tail(errors))

fromSlice(errors) ==
    IF Len(errors) = 0 THEN Nil
    ELSE IF Len(errors) = 1 THEN errors[1]
    ELSE IF CountNonNil(errors) = 0 THEN Nil
    ELSE IF CountNonNil(errors) = 1 THEN errors[FirstErrorIdx(errors)]
    ELSE IF CountNonNil(errors) = Len(errors) /\ ~ContainsMultiError(errors)
         THEN Multi(errors)
    ELSE Multi(flatten(errors))

multierrCombine(errs) == fromSlice(errs)

multierrAppend(left, right) ==
    IF IsNil(left) THEN right
    ELSE IF IsNil(right) THEN left
    ELSE IF ~IsMulti(right) /\ IsMulti(left) THEN Multi(Append(left.errors, right))
    ELSE IF ~IsMulti(right) /\ ~IsMulti(left) THEN Multi(<<left, right>>)
    ELSE fromSlice(<<left, right>>)

multierrErrors(err) ==
    IF IsNil(err) THEN <<>>
    ELSE IF ~IsMulti(err) THEN <<err>>
    ELSE err.errors

\* multierr.AppendInto on the destination pointer into ("nil" or "slot"),
\* with mem the value of the variable a valid pointer points to
multierrAppendInto(into, mem, err) ==
    IF into = "nil" THEN [panicked |-> TRUE, mem |-> mem]
    ELSE IF IsNil(err) THEN [panicked |-> FALSE, mem |-> mem]
    ELSE [panicked |-> FALSE, mem |-> multierrAppend(mem, err)]

\* multierr.AppendFunc: fn is invoked first, its result goes to AppendInto;
\* fn is [kind |-> "return", ret |-> an error] or [kind |-> "panic", ...]
multierrAppendFunc(into, mem, fn) ==
    IF fn.kind = "panic" THEN [panicked |-> TRUE, mem |-> mem]
    ELSE multierrAppendInto(into, mem, fn.ret)

----------------------------------------------------------------------------
(* The free functions of package rxmerr *)

\* Combine that always builds an aggregate of what it was given
CombineWraps(errs) == Multi(flatten(errs))

Combine(errs) == multierrCombine(errs)

\* Append that nests its operands instead of splicing their constituents
AppendErrorNests(left, right) ==
    IF IsNil(left) THEN right
    ELSE IF IsNil(right) THEN left
    ELSE Multi(<<left, right>>)

\* Append that splices the left operand and keeps the right one whole
AppendErrorNestsRight(left, right) ==
    IF IsNil(left) THEN right
    ELSE IF IsNil(right) THEN left
    ELSE Multi(multierrErrors(left) \o <<right>>)

\* Append that re-wraps the one non-nil operand in a new aggregate
AppendErrorWraps(left, right) ==
    IF IsNil(left) /\ IsNil(right) THEN Nil
    ELSE Multi(multierrErrors(left) \o multierrErrors(right))

\* func Append(left, right error) error; named AppendError because Append is
\* the sequence operator of module Sequences
AppendError(left, right) == multierrAppend(left, right)

Errors(err) == multierrErrors(err)

\* AppendInto that returns on a nil destination instead of panicking
AppendIntoIgnoresNilDst(dst, mem, err) ==
    IF dst = "nil" THEN [panicked |-> FALSE, mem |-> mem]
    ELSE multierrAppendInto(dst, mem, err)

AppendInto(dst, mem, err) == multierrAppendInto(dst, mem, err)

AppendFunc(dst, mem, fn) == multierrAppendFunc(dst, mem, fn)

----------------------------------------------------------------------------
(* Collector *)

NewCollector == [err |-> Nil, count |-> 0]

\* Append without the nil guard on the counter
CollectorAppendCountsNil(col, err) ==
    [err |-> multierrAppend(col.err, err), count |-> col.count + 1]

\* Append that forgets c.count++
CollectorAppendNoCount(col, err) ==
    IF ~IsNil(err)
    THEN [err |-> multierrAppend(col.err, err), count |-> col.count]
    ELSE col

\* Append with the operands of multierr.Append exchanged
CollectorAppendSwapped(col, err) ==
    IF ~IsNil(err)
    THEN [err |-> multierrAppend(err, col.err), count |-> col.count + 1]
    ELSE col

\* Append that always builds an aggregate, also around one error
CollectorAppendWraps(col, err) ==
    IF ~IsNil(err)
    THEN [err |-> Multi(multierrErrors(col.err) \o multierrErrors(err)),
          count |-> col.count + 1]
    ELSE col

CollectorAppend(col, err) ==
    IF ~IsNil(err)
    THEN [err |-> multierrAppend(col.err, err), count |-> col.count + 1]
    ELSE col

\* AppendFunc with a recovery boundary that records the panic as an error
CollectorAppendFuncRecovers(col, fn) ==
    IF fn.kind = "panic"
    THEN [panicked |-> FALSE, col |-> CollectorAppend(col, Single("errC"))]
    ELSE [panicked |-> FALSE, col |-> CollectorAppend(col, fn.ret)]

\* c.Append(fn()): a panic in fn leaves before Append is entered
CollectorAppendFunc(col, fn) ==
    IF fn.kind = "panic" THEN [panicked |-> TRUE, col |-> col]
    ELSE [panicked |-> FALSE, col |-> CollectorAppend(col, fn.ret)]

CollectorErr(col) == col.err

CollectorLen(col) == col.count

CollectorHasError(col) == col.count > 0

\* Reset that zeroes the counter and keeps the aggregate
CollectorResetKeepsErr(col) == [err |-> col.err, count |-> 0]

\* Reset that clears the aggregate and keeps the counter
CollectorResetKeepsCount(col) == [err |-> Nil, count |-> col.count]

CollectorReset(col) == [err |-> Nil, count |-> 0]

CollectorErrors(col) ==
    IF IsNil(col.err) THEN <<>>
    ELSE multierrErrors(col.err)

----------------------------------------------------------------------------
(* What a caller passes *)

\* the functions handed to AppendFunc: fn returns an error value or panics
Fns == {[kind |-> "return", ret |-> e] : e \in ErrVal}
           \cup {[kind |-> "panic", ret |-> Nil]}

\* a destination pointer is nil or points to the variable slot
Ptrs == {"nil", "slot"}

\* number of constituents of an error value, as the caller built it
Size(e) == IF IsNil(e) THEN 0 ELSE IF IsMulti(e) THEN Len(e.errors) ELSE 1

----------------------------------------------------------------------------
(* Sequential use of one Collector *)

InitCollector ==
    /\ c = NewCollector
    /\ appended = <<>>
    /\ captured = Nil
    /\ capturedErrs = <<>>
    /\ last = "NewCollector"

InitPureIdle ==
    /\ x = Nil /\ y = Nil /\ z = Nil
    /\ op = "none" /\ nargs = 0 /\ out = Nil

InitIntoIdle ==
    /\ slot = Nil /\ dstNil = FALSE /\ arg = Nil /\ before = Nil

\* the goroutines sharing the Collector
Threads == {1, 2}

InitRaceIdle ==
    /\ useLock = FALSE
    /\ mu = 0
    /\ pc = [t \in Threads |-> "start"]
    /\ targ = [t \in Threads |-> Nil]
    /\ regErr = [t \in Threads |-> Nil]
    /\ regCount = [t \in Threads |-> 0]

Init ==
    /\ InitCollector
    /\ InitPureIdle
    /\ InitIntoIdle
    /\ InitRaceIdle
    /\ panicked = FALSE

\* c.Append(err)
CallAppend(err) ==
    /\ Size(c.err) + Size(err) <= MaxLen
    /\ c' = CollectorAppend(c, err)
    /\ appended' = IF IsNil(err) THEN appended ELSE Append(appended, err)
    /\ last' = "Append"
    /\ panicked' = FALSE
    /\ UNCHANGED <<captured, capturedErrs, pureVars, intoVars, raceVars>>

\* c.AppendFunc(fn)
CallAppendFunc(fn) ==
    /\ Size(c.err) + Size(fn.ret) <= MaxLen
    /\ LET r == CollectorAppendFunc(c, fn) IN
        /\ c' = r.col
        /\ panicked' = r.panicked
    /\ appended' = IF fn.kind = "panic" \/ IsNil(fn.ret)
                   THEN appended ELSE Append(appended, fn.ret)
    /\ last' = IF fn.kind = "panic" THEN "AppendFuncPanic" ELSE "AppendFunc"
    /\ UNCHANGED <<captured, capturedErrs, pureVars, intoVars, raceVars>>

\* r := c.Err()
CallErr ==
    /\ captured' = CollectorErr(c)
    /\ capturedErrs' = Errors(CollectorErr(c))
    /\ last' = "Err"
    /\ panicked' = FALSE
    /\ UNCHANGED <<c, appended, pureVars, intoVars, raceVars>>

\* c.Reset()
CallReset ==
    /\ c' = CollectorReset(c)
    /\ appended' = <<>>
    /\ last' = "Reset"
    /\ panicked' = FALSE
    /\ UNCHANGED <<captured, capturedErrs, pureVars, intoVars, raceVars>>

Next ==
    \/ \E err \in ErrVal : CallAppend(err)
    \/ \E fn \in Fns : CallAppendFunc(fn)
    \/ CallErr
    \/ CallReset

Spec == Init /\ [][Next]_vars

----------------------------------------------------------------------------
(* Calls of the free functions on inputs x, y, z: a behaviour draws the     *)
(* inputs and makes one call (op = "none" until the call is made)          *)

InitPure ==
    /\ x \in ErrVal /\ y \in ErrVal /\ z \in ErrVal
    /\ op = "none" /\ nargs = 0 /\ out = Nil
    /\ InitCollector
    /\ InitIntoIdle
    /\ InitRaceIdle
    /\ panicked = FALSE

\* out := Append(x, y)
CallAppendError ==
    /\ op = "none"
    /\ op' = "Append"
    /\ out' = AppendError(x, y)
    /\ panicked' = FALSE
    /\ UNCHANGED <<x, y, z, nargs, collectorVars, intoVars, raceVars>>

\* out := Append(Append(x, y), z)
CallAppendLeft ==
    /\ op = "none"
    /\ op' = "AppendLeft"
    /\ out' = AppendError(AppendError(x, y), z)
    /\ panicked' = FALSE
    /\ UNCHANGED <<x, y, z, nargs, collectorVars, intoVars, raceVars>>

\* out := Append(x, Append(y, z))
CallAppendRight ==
    /\ op = "none"
    /\ op' = "AppendRight"
    /\ out' = AppendError(x, AppendError(y, z))
    /\ panicked' = FALSE
    /\ UNCHANGED <<x, y, z, nargs, collectorVars, intoVars, raceVars>>

\* out := Combine(the first n of x, y, z)
CallCombine(n) ==
    /\ op = "none"
    /\ op' = "Combine"
    /\ nargs' = n
    /\ out' = Combine(SubSeq(<<x, y, z>>, 1, n))
    /\ panicked' = FALSE
    /\ UNCHANGED <<x, y, z, collectorVars, intoVars, raceVars>>

\* out := x; AppendInto(&out, y)
CallAppendIntoLocal ==
    /\ op = "none"
    /\ op' = "AppendInto"
    /\ LET r == AppendInto("slot", x, y) IN
        /\ out' = r.mem
        /\ panicked' = r.panicked
    /\ UNCHANGED <<x, y, z, nargs, collectorVars, intoVars, raceVars>>

\* k := NewCollector(); k.Append(x); k.Append(y); k.Append(z); out := k.Err()
CallCollectorLocal ==
    /\ op = "none"
    /\ op' = "Collector"
    /\ out' = CollectorErr(CollectorAppend(CollectorAppend(CollectorAppend(NewCollector, x), y), z))
    /\ panicked' = FALSE
    /\ UNCHANGED <<x, y, z, nargs, collectorVars, intoVars, raceVars>>

NextPure ==
    \/ CallAppendError
    \/ CallAppendLeft
    \/ CallAppendRight
    \/ \E n \in 0..3 : CallCombine(n)
    \/ CallAppendIntoLocal
    \/ CallCollectorLocal

SpecPure == InitPure /\ [][NextPure]_vars

----------------------------------------------------------------------------
(* Accumulating into an error variable through a destination pointer *)

InitInto ==
    /\ InitCollector
    /\ InitPureIdle
    /\ InitIntoIdle
    /\ InitRaceIdle
    /\ panicked = FALSE

\* AppendInto(dst, err)
CallAppendInto(dst, err) ==
    /\ Size(slot) + Size(err) <= MaxLen
    /\ LET r == AppendInto(dst, slot, err) IN
        /\ slot' = r.mem
        /\ panicked' = r.panicked
    /\ dstNil' = (dst = "nil")
    /\ arg' = err
    /\ before' = slot
    /\ op' = "AppendInto"
    /\ UNCHANGED <<x, y, z, nargs, out, collectorVars, raceVars>>

\* AppendFunc(dst, fn)
CallAppendFuncInto(dst, fn) ==
    /\ Size(slot) + Size(fn.ret) <= MaxLen
    /\ LET r == AppendFunc(dst, slot, fn) IN
        /\ slot' = r.mem
        /\ panicked' = r.panicked
    /\ dstNil' = (dst = "nil")
    /\ arg' = fn.ret
    /\ before' = slot
    /\ op' = IF fn.kind = "panic" THEN "AppendFuncPanic" ELSE "AppendFunc"
    /\ UNCHANGED <<x, y, z, nargs, out, collectorVars, raceVars>>

NextInto ==
    \/ \E dst \in Ptrs, err \in ErrVal : CallAppendInto(dst, err)
    \/ \E dst \in Ptrs, fn \in Fns : CallAppendFuncInto(dst, fn)

SpecInto == InitInto /\ [][NextInto]_vars

----------------------------------------------------------------------------
(* Best-effort cleanup through AppendFunc: a behaviour accumulates either   *)
(* into the Collector (no free function is called, op stays "none") or into *)
(* the error variable behind dst (the Collector stays as created)           *)

InitFunc == Init

NextFunc ==
    \/ op = "none" /\ \E fn \in Fns : CallAppendFunc(fn)
    \/ last = "NewCollector" /\ \E dst \in Ptrs, fn \in Fns : CallAppendFuncInto(dst, fn)

SpecFunc == InitFunc /\ [][NextFunc]_vars

----------------------------------------------------------------------------
(* Two goroutines calling c.Append(err) on one Collector.  Append is        *)
(*     if err != nil { c.err = multierr.Append(c.err, err); c.count++ }     *)
(* and each read and each write of a field is one step.  With useLock the   *)
(* goroutines hold one mutex around the whole call.  Without it the loads   *)
(* and stores race; the steps below take each load and store as atomic,     *)
(* which is among the outcomes a racing build produces.                     *)

InitRace ==
    /\ InitCollector
    /\ InitPureIdle
    /\ InitIntoIdle
    /\ panicked = FALSE
    /\ useLock \in BOOLEAN
    /\ mu = 0
    /\ pc = [t \in Threads |-> "start"]
    /\ targ \in [Threads -> ErrVal]
    /\ regErr = [t \in Threads |-> Nil]
    /\ regCount = [t \in Threads |-> 0]

raceFrame == <<appended, captured, capturedErrs, last, pureVars, intoVars, panicked, useLock, targ>>

\* mu.Lock() when the callers synchronize, then the call of c.Append(err)
RaceBegin(t) ==
    /\ pc[t] = "start"
    /\ IF useLock THEN mu = 0 /\ mu' = t ELSE mu' = mu
    /\ pc' = [pc EXCEPT ![t] = "check"]
    /\ UNCHANGED <<c, regErr, regCount, raceFrame>>

\* if err != nil
RaceCheckNil(t) ==
    /\ pc[t] = "check"
    /\ pc' = [pc EXCEPT ![t] = IF IsNil(targ[t]) THEN "return" ELSE "readErr"]
    /\ UNCHANGED <<c, mu, regErr, regCount, raceFrame>>

\* the load of c.err, the first operand of multierr.Append
RaceReadErr(t) ==
    /\ pc[t] = "readErr"
    /\ regErr' = [regErr EXCEPT ![t] = c.err]
    /\ pc' = [pc EXCEPT ![t] = "writeErr"]
    /\ UNCHANGED <<c, mu, regCount, raceFrame>>

\* the store c.err = err, which drops what the Collector held
RaceWriteErrOverwrites(t) ==
    /\ pc[t] = "writeErr"
    /\ c' = [c EXCEPT !.err = targ[t]]
    /\ pc' = [pc EXCEPT ![t] = "readCount"]
    /\ UNCHANGED <<mu, regErr, regCount, raceFrame>>

\* the store c.err = multierr.Append(c.err, err)
RaceWriteErr(t) ==
    /\ pc[t] = "writeErr"
    /\ c' = [c EXCEPT !.err = multierrAppend(regErr[t], targ[t])]
    /\ pc' = [pc EXCEPT ![t] = "readCount"]
    /\ UNCHANGED <<mu, regErr, regCount, raceFrame>>

\* the load of c.count in c.count++
RaceReadCount(t) ==
    /\ pc[t] = "readCount"
    /\ regCount' = [regCount EXCEPT ![t] = c.count]
    /\ pc' = [pc EXCEPT ![t] = "writeCount"]
    /\ UNCHANGED <<c, mu, regErr, raceFrame>>

\* the store of c.count in c.count++
RaceWriteCount(t) ==
    /\ pc[t] = "writeCount"
    /\ c' = [c EXCEPT !.count = regCount[t] + 1]
    /\ pc' = [pc EXCEPT ![t] = "return"]
    /\ UNCHANGED <<mu, regErr, regCount, raceFrame>>

\* the return of Append, then mu.Unlock() when the callers synchronize
RaceEnd(t) ==
    /\ pc[t] = "return"
    /\ mu' = IF useLock THEN 0 ELSE mu
    /\ pc' = [pc EXCEPT ![t] = "done"]
    /\ UNCHANGED <<c, regErr, regCount, raceFrame>>

NextRace ==
    \E t \in Threads :
        \/ RaceBegin(t)
        \/ RaceCheckNil(t)
        \/ RaceReadErr(t)
        \/ RaceWriteErr(t)
        \/ RaceReadCount(t)
        \/ RaceWriteCount(t)
        \/ RaceEnd(t)

SpecRace == InitRace /\ [][NextRace]_vars

----------------------------------------------------------------------------
(* Properties of the Collector *)

\* the constituents an appended error contributes, read off the value itself
Constituents(e) ==
    IF e.kind = "multi" THEN e.errors
    ELSE IF e.kind = "single" THEN <<e>>
    ELSE <<>>

RECURSIVE ConcatAll(_)
ConcatAll(s) ==
    IF s = <<>> THEN <<>> ELSE Constituents(Head(s)) \o ConcatAll(Tail(s))

NoAggregateAppended == \A i \in 1..Len(appended) : ~IsMulti(appended[i])

\* C1 as stated: after any sequence of Append calls, with nil, single or
\* aggregate arguments, Len() equals len(Errors()).
C1_LenEqualsErrors == CollectorLen(c) = Len(CollectorErrors(c))

\* C1 amended: Len() equals len(Errors()) when every appended argument was
\* nil or a single (non-aggregate) error; an appended aggregate counts once
\* and contributes all its constituents, so Len() is then below len(Errors()).
C1_LenVsErrors ==
    /\ NoAggregateAppended => CollectorLen(c) = Len(CollectorErrors(c))
    /\ ~NoAggregateAppended => CollectorLen(c) < Len(CollectorErrors(c))

C1_Witness ==
    /\ last = "Append"
    /\ NoAggregateAppended
    /\ CollectorLen(c) = 2
    /\ Len(CollectorErrors(c)) = 2

\* C2: in every reachable state Len() is the number of Append calls (direct
\* or through AppendFunc) that received a non-nil error since creation or the
\* last Reset; a nil argument never changes it.
C2_LenCountsAppends == CollectorLen(c) = Len(appended)

C2_Witness ==
    /\ last = "AppendFunc"
    /\ ~panicked
    /\ CollectorLen(c) = 2
    /\ \E i \in 1..Len(appended) : IsMulti(appended[i])

\* C3: Errors() is the concatenation, in append order, of the constituents of
\* every non-nil error appended since creation or the last Reset; nothing is
\* dropped, deduplicated or reordered.
C3_ErrorsInAppendOrder == CollectorErrors(c) = ConcatAll(appended)

C3_Witness ==
    /\ appended = <<Single("errA"), Single("errB")>>
    /\ CollectorErrors(c) = <<Single("errA"), Single("errB")>>
    /\ CollectorLen(c) = 2

\* C4: Err() is nil when no non-nil error was appended, is that very error
\* when exactly one was appended, and otherwise is an aggregate exposing every
\* appended error in append order.
C4_ErrShape ==
    /\ Len(appended) = 0 => CollectorErr(c) = Nil
    /\ Len(appended) = 1 => CollectorErr(c) = appended[1]
    /\ Len(appended) >= 2 =>
        /\ IsMulti(CollectorErr(c))
        /\ Errors(CollectorErr(c)) = ConcatAll(appended)

C4_Witness ==
    /\ Len(appended) = 2
    /\ IsMulti(CollectorErr(c))
    /\ Len(Errors(CollectorErr(c))) = 2

\* C5: right after Reset the Collector is as a new one (Err() nil, Len() 0,
\* HasError() false, Errors() empty), and a value captured from Err() keeps
\* the constituents it had when captured, through Reset and later Appends.
C5_ResetClearsStateNotHistory ==
    /\ last = "Reset" =>
        /\ CollectorErr(c) = CollectorErr(NewCollector)
        /\ CollectorErr(c) = Nil
        /\ CollectorLen(c) = 0
        /\ ~CollectorHasError(c)
        /\ CollectorErrors(c) = <<>>
    /\ Errors(captured) = capturedErrs

C5_Witness ==
    /\ last = "Reset"
    /\ IsMulti(captured)
    /\ Len(capturedErrs) = 2
    /\ CollectorErr(c) = Nil

----------------------------------------------------------------------------
(* Properties of the free functions *)

\* the arguments of the last free-function call, in order
Inputs ==
    IF op = "Combine" THEN SubSeq(<<x, y, z>>, 1, nargs)
    ELSE IF op \in {"Append", "AppendInto"} THEN <<x, y>>
    ELSE <<x, y, z>>

NonNilInputs == {i \in 1..Len(Inputs) : Inputs[i] # Nil}

\* Append folded pairwise, left to right, from acc
RECURSIVE FoldAppend(_, _)
FoldAppend(acc, s) ==
    IF s = <<>> THEN acc ELSE FoldAppend(AppendError(acc, Head(s)), Tail(s))

\* C6: Combine(errs...) returns what folding Append pairwise, left to right,
\* from nil returns; zero or all-nil inputs give nil, and exactly one non-nil
\* input is returned unchanged.
C6_CombineIsFoldOfAppend ==
    op = "Combine" =>
        /\ out = FoldAppend(Nil, Inputs)
        /\ NonNilInputs = {} => out = Nil
        /\ \A i \in NonNilInputs : NonNilInputs = {i} => out = Inputs[i]

C6_Witness ==
    /\ op = "Combine"
    /\ nargs = 3
    /\ x = Nil /\ y = Single("errA") /\ z = Nil
    /\ out = Single("errA")

\* C7: the result of Append, Combine, AppendInto and Collector.Append has
\* only non-nil, non-aggregate constituents, holds the operands' constituents
\* spliced in place in their order, and is an aggregate only when it has at
\* least two constituents.
C7_NoNestedOrDegenerateAggregate ==
    op # "none" =>
        /\ \A i \in 1..Len(Errors(out)) :
               ~IsNil(Errors(out)[i]) /\ ~IsMulti(Errors(out)[i])
        /\ Errors(out) = ConcatAll(Inputs)
        /\ IsMulti(out) => Len(Errors(out)) >= 2

C7_Witness ==
    /\ op = "Append"
    /\ IsMulti(x) /\ IsMulti(y)
    /\ IsMulti(out)
    /\ Len(Errors(out)) = 4

\* C8: Errors(Append(Append(a, b), c)) and Errors(Append(a, Append(b, c)))
\* are the same ordered sequence, for a, b, c nil, single or aggregate.
C8_AppendAssociative ==
    /\ op = "AppendLeft" => Errors(out) = Errors(AppendError(x, AppendError(y, z)))
    /\ op = "AppendRight" => Errors(out) = Errors(AppendError(AppendError(x, y), z))

C8_Witness ==
    /\ op = "AppendLeft"
    /\ ~IsNil(x) /\ ~IsNil(y) /\ IsMulti(z)
    /\ Len(Errors(out)) >= 4

\* C9: nil is a two-sided identity of Append: Append(nil, nil) is nil, and
\* Append(nil, v) and Append(v, nil) return v itself, not re-wrapped.
C9_NilIsIdentity ==
    op = "Append" =>
        /\ (x = Nil /\ y = Nil) => out = Nil
        /\ x = Nil => out = y
        /\ y = Nil => out = x

C9_Witness ==
    /\ op = "Append"
    /\ x = Nil
    /\ y = Single("errB")
    /\ out = Single("errB")

\* C10: AppendInto with a nil destination panics whatever err is and mutates
\* nothing; with a valid destination it sets *dst to Append(*dst, err), which
\* leaves *dst as it was when err is nil.
C10_AppendIntoNilDstPanics ==
    op = "AppendInto" =>
        /\ dstNil => (panicked /\ slot = before)
        /\ ~dstNil =>
            /\ ~panicked
            /\ slot = AppendError(before, arg)
            /\ arg = Nil => slot = before

C10_Witness ==
    /\ op = "AppendInto"
    /\ dstNil
    /\ panicked
    /\ arg = Nil
    /\ ~IsNil(before)
    /\ slot = before

----------------------------------------------------------------------------
(* Properties of AppendFunc *)

\* C11: AppendFunc installs no recovery boundary: a call whose fn panics
\* panics itself, and leaves the destination (the Collector's aggregate and
\* count, respectively *dst) exactly as it was before the call.
C11_AppendFuncPropagatesPanic ==
    [][ /\ last' = "AppendFuncPanic" => (panicked' /\ c' = c)
        /\ op' = "AppendFuncPanic" => (panicked' /\ slot' = slot) ]_vars

C11_Witness ==
    /\ last = "AppendFuncPanic"
    /\ panicked
    /\ CollectorLen(c) = 2
    /\ IsMulti(CollectorErr(c))

----------------------------------------------------------------------------
(* Agreement of the aggregate and the count *)

\* C13: in every state reached by sequential use of NewCollector, Append,
\* AppendFunc and Reset, Err() != nil exactly when HasError() is true,
\* exactly when Len() > 0, and Errors() is empty exactly when Err() is nil.
C13_EmptinessAgrees ==
    /\ (CollectorErr(c) # Nil) <=> CollectorHasError(c)
    /\ CollectorHasError(c) <=> (CollectorLen(c) > 0)
    /\ (CollectorErrors(c) = <<>>) <=> (CollectorErr(c) = Nil)

C13_Witness ==
    /\ last = "Reset"
    /\ captured # Nil
    /\ CollectorErr(c) = Nil
    /\ ~CollectorHasError(c)
    /\ CollectorLen(c) = 0
    /\ CollectorErrors(c) = <<>>

----------------------------------------------------------------------------
(* Concurrent use *)

AllDone == \A t \in Threads : pc[t] = "done"

\* the number of Append calls of the goroutines that received a non-nil error
NonNilAppends == Cardinality({t \in Threads : targ[t] # Nil})

\* Errors() holds every appended error, in one of the two orders of the calls
AllAppendedPresent ==
    \/ CollectorErrors(c) = ConcatAll(<<targ[1], targ[2]>>)
    \/ CollectorErrors(c) = ConcatAll(<<targ[2], targ[1]>>)

\* C12: a Collector is not safe for concurrent mutation.  When every call is
\* wrapped in one mutex, after both Append calls Len() is the number of
\* non-nil appends and Errors() holds every appended error; without the
\* mutex an interleaving ends with Len() below the number of non-nil appends
\* or with an appended error missing from Errors() (the state C12_Witness).
C12_LockedAppendsKeepAll ==
    (useLock /\ AllDone) =>
        /\ CollectorLen(c) = NonNilAppends
        /\ AllAppendedPresent

C12_Witness ==
    /\ ~useLock
    /\ AllDone
    /\ \A t \in Threads : targ[t] # Nil
    /\ \/ CollectorLen(c) < NonNilAppends
       \/ ~AllAppendedPresent

====
